---- MODULE Spec2Model ----
(***************************************************************************)
(* memory_arena<BlockAllocator> and detail::memory_block_stack of          *)
(* include/foonathan/memory/memory_arena.hpp.                              *)
(*                                                                         *)
(* The heap is modelled explicitly: a block stack is a head pointer and    *)
(* the node headers live in the blocks' own memory (mem).  The block       *)
(* allocator (the strategy) is the environment: it hands out blocks at     *)
(* free addresses, may throw, and every call made to it is recorded in     *)
(* log together with the acquisition number of the block.                  *)
(***************************************************************************)
EXTENDS Integers, Sequences, FiniteSets, TLC

\* ---- bounds ------------------------------------------------------------
\* blocks the strategies hand out in one behaviour
MaxAcquire == 3
\* distinct block addresses the strategies can hand out
NumAddrs == 3
\* width of std::size_t
SizeBits == 16
\* move assignments in one behaviour
MaxAssign == 1

\* ---- constants and values ----------------------------------------------
NULL == 0

\* node::offset, the header-sized prefix of a block
NodeOffset == 16

SizeMod == 2 ^ SizeBits

Addrs == {64 * i : i \in 1..NumAddrs}

Sizes == {NodeOffset + 16, NodeOffset + 32}

Arenas == {"a", "b"}

\* outcome of a strategy call that signals failure; in the record of an
\* operation it also stands for "no block"
Throw == [memory |-> NULL, size |-> 0]

memory_block(m, s) == [memory |-> m, size |-> s]

VARIABLES
    mem,      \* node headers stored in the blocks: address -> [prev, usable_size]
    arena,    \* arena -> [state, used_, cached_, no_used_, no_cached_, alloc]
    acq,      \* strategy side: address -> acquisition number of the block (0: not handed out)
    total,    \* strategy side: number of blocks handed out so far
    log,      \* strategy side: the blocks handed out and taken back, in order
    last,     \* the last arena operation: its pre-state, its strategy calls, its result
    aborted   \* the process has been terminated (failed assertion or crash)

vars == <<mem, arena, acq, total, log, last, aborted>>

\* ---- std::size_t arithmetic --------------------------------------------
Inc(n) == (n + 1) % SizeMod

Dec(n) == (n + SizeMod - 1) % SizeMod

\* ---- detail::memory_block_stack ----------------------------------------
empty(head) == head = NULL

\* memory_block_stack(memory_block_stack &&other)
stack_move(other) == [head |-> other, other |-> NULL]

push(head, m, block) ==
    [head |-> block.memory,
     mem  |-> [m EXCEPT ![block.memory] =
                  [prev |-> head, usable_size |-> block.size - NodeOffset]]]

pop(head, m) ==
    [head  |-> m[head].prev,
     block |-> memory_block(head, m[head].usable_size + NodeOffset)]

steal_top(head, other, m) ==
    [head  |-> other,
     other |-> m[other].prev,
     mem   |-> [m EXCEPT ![other].prev = head]]

top(head, m) == memory_block(head + NodeOffset, m[head].usable_size)

\* while (!src.empty()) dst.steal_top(src);
RECURSIVE steal_all(_, _, _)
steal_all(dst, src, m) ==
    IF empty(src) THEN [head |-> dst, other |-> src, mem |-> m]
    ELSE LET s == steal_top(dst, src, m) IN steal_all(s.head, s.other, s.mem)

\* the loop below passing on the usable size instead of the size pop() returns
RECURSIVE pop_all_usable_size(_, _)
pop_all_usable_size(head, m) ==
    IF empty(head) THEN <<>>
    ELSE <<memory_block(head, m[head].usable_size)>>
             \o pop_all_usable_size(pop(head, m).head, m)

\* while (!s.empty()) deallocate_block(s.pop());  the blocks popped, in order
RECURSIVE pop_all(_, _)
pop_all(head, m) ==
    IF empty(head) THEN <<>>
    ELSE LET p == pop(head, m) IN <<p.block>> \o pop_all(p.head, m)

\* the node addresses of a stack, top first (at most n of them)
RECURSIVE Chain(_, _, _)
Chain(head, m, n) ==
    IF head = NULL \/ n = 0 THEN <<>>
    ELSE <<head>> \o Chain(m[head].prev, m, n - 1)

Nodes(head, m) == Chain(head, m, NumAddrs + 1)

\* ---- the strategy (BlockAllocator), as the arena sees it ----------------
\* addresses the strategies have never handed out
FreshAddrs == Addrs \ {log[i].block.memory : i \in 1..Len(log)}

\* where the next block can be: at the address of a block that was released,
\* or at a new address (the new addresses are interchangeable: the lowest)
FreeAddrs ==
    {p \in Addrs : acq[p] = 0 /\ (p \in FreshAddrs => \A q \in FreshAddrs : p <= q)}

\* what allocator_type::allocate_block() can do
StrategyResults ==
    {Throw} \cup {memory_block(p, s) : p \in FreeAddrs, s \in Sizes}

AllocEvent(inst, block, id) ==
    [op |-> "allocate_block", inst |-> inst, block |-> block, id |-> id]

DeallocEvent(inst, block, id) ==
    [op |-> "deallocate_block", inst |-> inst, block |-> block, id |-> id]

\* the bytes of a block the arena does not own: they are the strategy's
NoNode == [prev |-> NULL, usable_size |-> 0]

\* allocator_type::deallocate_block(b) for each b of blocks, in order; the
\* memory of a released block goes back to the strategy
RECURSIVE Release(_, _, _, _, _)
Release(inst, blocks, lg, ac, m) ==
    IF blocks = <<>> THEN [log |-> lg, acq |-> ac, mem |-> m]
    ELSE LET b == Head(blocks) IN
         Release(inst, Tail(blocks),
                 Append(lg, DeallocEvent(inst, b, ac[b.memory])),
                 [ac EXCEPT ![b.memory] = 0],
                 [m EXCEPT ![b.memory] = NoNode])

\* ---- memory_arena ------------------------------------------------------
capacity_assert(ar) == (ar.no_cached_ # 0) # empty(ar.cached_)

capacity(ar) == (ar.no_cached_ + ar.no_used_) % SizeMod

size_assert(ar) == (ar.no_used_ # 0) # empty(ar.used_)

size(ar) == ar.no_used_

NoArena ==
    [state |-> "none", used_ |-> NULL, cached_ |-> NULL,
     no_used_ |-> 0, no_cached_ |-> 0, alloc |-> "-"]

\* explicit memory_arena(allocator_type allocator = allocator_type{})
ctor(allocator) ==
    [state |-> "live", used_ |-> NULL, cached_ |-> NULL,
     no_used_ |-> 0, no_cached_ |-> 0, alloc |-> allocator]

Live(x) == ~aborted /\ arena[x].state = "live"

\* How far the operations so far follow allocate_block, allocate_block,
\* deallocate_block and then either allocate_block, shrink_to_fit (steps 4, 5)
\* or shrink_to_fit (step 6), none of them failing; -1 once they do not.
ScenarioStep(k, op, threw) ==
    IF threw THEN -1
    ELSE IF k \in {0, 1, 3} /\ op = "allocate_block" THEN k + 1
    ELSE IF k = 2 /\ op = "deallocate_block" THEN 3
    ELSE IF k = 4 /\ op = "shrink_to_fit" THEN 5
    ELSE IF k = 3 /\ op = "shrink_to_fit" THEN 6
    ELSE -1

\* the record of an operation on arena x, taken in the state it starts in;
\* prev_*: the operation before it; assigns: the move assignments so far
Record(op, x, ret, threw) ==
    [op |-> op, x |-> x, to |-> "-", pre |-> arena[x], asked |-> 0,
     assigns |-> last.assigns, step |-> ScenarioStep(last.step, op, threw),
     prev_op |-> last.op, prev_x |-> last.x, prev_top0 |-> last.top0,
     used0 |-> Nodes(arena[x].used_, mem),
     cached0 |-> Nodes(arena[x].cached_, mem),
     top0 |-> IF empty(arena[x].used_) THEN Throw ELSE top(arena[x].used_, mem),
     ctop0 |-> IF empty(arena[x].cached_) THEN Throw
               ELSE top(arena[x].cached_, mem),
     log0 |-> Len(log), ret |-> ret, threw |-> threw]

Init ==
    /\ mem = [p \in Addrs |-> NoNode]
    /\ arena = [x \in Arenas |-> IF x = "a" THEN ctor("A") ELSE NoArena]
    /\ acq = [p \in Addrs |-> 0]
    /\ total = 0
    /\ log = <<>>
    /\ last = [op |-> "ctor", x |-> "a", to |-> "-", pre |-> NoArena,
               asked |-> 0, assigns |-> 0, step |-> 0,
               prev_op |-> "-", prev_x |-> "-", prev_top0 |-> Throw,
               used0 |-> <<>>, cached0 |-> <<>>, top0 |-> Throw,
               ctop0 |-> Throw, log0 |-> 0,
               ret |-> Throw, threw |-> FALSE]
    /\ aborted = FALSE

\* ---- the arena's operations, as functions of the arena and the heap -----

\* allocate_block() that always asks the strategy
must_grow_always(ar) == TRUE

\* allocate_block(): if (capacity() == size())
must_grow(ar) == capacity(ar) = size(ar)

\* allocate_block(), capacity() == size(), the strategy returned block
allocate_block_grow(ar, m, block) ==
    LET p == push(ar.used_, m, block) IN
    [arena |-> [ar EXCEPT !.used_ = p.head, !.no_used_ = Inc(@)],
     mem   |-> p.mem]

\* allocate_block() counting the block before the strategy is asked for it
allocate_block_throw_counted(ar, m) ==
    [arena |-> [ar EXCEPT !.no_used_ = Inc(@)], mem |-> m]

\* allocate_block(), capacity() == size(), the strategy threw: the exception
\* leaves allocate_block() from inside the argument of used_.push()
allocate_block_throw(ar, m) == [arena |-> ar, mem |-> m]

\* allocate_block(), capacity() != size(), without --no_cached_
allocate_block_reuse_keeps_count(ar, m) ==
    LET s == steal_top(ar.used_, ar.cached_, m) IN
    [arena |-> [ar EXCEPT !.used_ = s.head, !.cached_ = s.other,
                          !.no_used_ = Inc(@)],
     mem   |-> s.mem]

\* allocate_block(), capacity() != size()
allocate_block_reuse(ar, m) ==
    LET s == steal_top(ar.used_, ar.cached_, m) IN
    [arena |-> [ar EXCEPT !.used_ = s.head, !.cached_ = s.other,
                          !.no_cached_ = Dec(@), !.no_used_ = Inc(@)],
     mem   |-> s.mem]

\* deallocate_block() without ++no_cached_
deallocate_block_counters_used_only(ar) ==
    [ar EXCEPT !.no_used_ = Dec(@)]

\* deallocate_block(): the two counter updates that precede steal_top
deallocate_block_counters(ar) ==
    [ar EXCEPT !.no_used_ = Dec(@), !.no_cached_ = Inc(@)]

\* deallocate_block() moving every used block, not only the top one
deallocate_block_all(ar, m) ==
    LET c == deallocate_block_counters(ar)
        s == steal_all(ar.cached_, ar.used_, m) IN
    [arena |-> [c EXCEPT !.cached_ = s.head, !.used_ = s.other],
     mem   |-> s.mem]

deallocate_block(ar, m) ==
    LET c == deallocate_block_counters(ar)
        s == steal_top(ar.cached_, ar.used_, m) IN
    [arena |-> [c EXCEPT !.cached_ = s.head, !.used_ = s.other],
     mem   |-> s.mem]

\* shrink_to_fit() without the final no_cached_ = 0u
shrink_to_fit_keeps_count(ar, m) ==
    LET d == steal_all(NULL, ar.cached_, m) IN
    [arena    |-> [ar EXCEPT !.cached_ = d.other],
     mem      |-> d.mem,
     released |-> pop_all(d.head, d.mem)]

\* shrink_to_fit() popping cached_ directly, without the temporary stack
shrink_to_fit_no_reversal(ar, m) ==
    [arena    |-> [ar EXCEPT !.cached_ = NULL, !.no_cached_ = 0],
     mem      |-> m,
     released |-> pop_all(ar.cached_, m)]

\* shrink_to_fit() releasing used_ as well, as the destructor does
shrink_to_fit_releases_used(ar, m) ==
    LET d == steal_all(ar.used_, ar.cached_, m) IN
    [arena    |-> [ar EXCEPT !.used_ = NULL, !.cached_ = d.other,
                             !.no_used_ = 0, !.no_cached_ = 0],
     mem      |-> d.mem,
     released |-> pop_all(d.head, d.mem)]

\* shrink_to_fit() whose cached_ still refers to the blocks it released
shrink_to_fit_keeps_cached(ar, m) ==
    LET d == steal_all(NULL, ar.cached_, m) IN
    [arena    |-> [ar EXCEPT !.no_cached_ = 0],
     mem      |-> d.mem,
     released |-> pop_all(d.head, d.mem)]

\* shrink_to_fit(); released: the blocks passed to the strategy, in order
shrink_to_fit(ar, m) ==
    LET d == steal_all(NULL, ar.cached_, m) IN
    [arena    |-> [ar EXCEPT !.cached_ = d.other, !.no_cached_ = 0],
     mem      |-> d.mem,
     released |-> pop_all(d.head, d.mem)]

\* ~memory_arena() popping used_ and then cached_, without moving cached_
\* onto used_ first
dtor_no_reversal(ar, m) ==
    [arena    |-> [ar EXCEPT !.state = "destroyed", !.used_ = NULL,
                             !.cached_ = NULL],
     mem      |-> m,
     released |-> pop_all(ar.used_, m) \o pop_all(ar.cached_, m)]

\* ~memory_arena() without its first loop: cached_ is not released
dtor_leaks_cached(ar, m) ==
    [arena    |-> [ar EXCEPT !.state = "destroyed", !.used_ = NULL],
     mem      |-> m,
     released |-> pop_all(ar.used_, m)]

\* ~memory_arena(); released: the blocks passed to the strategy, in order
dtor(ar, m) ==
    LET d == steal_all(ar.used_, ar.cached_, m) IN
    [arena    |-> [ar EXCEPT !.state = "destroyed", !.used_ = NULL,
                             !.cached_ = d.other],
     mem      |-> d.mem,
     released |-> pop_all(d.head, d.mem)]

\* The memory_block_stack the initialisers used_(detail::move(other)) and
\* cached_(detail::move(other)) are built from.  other is the arena, not one
\* of its stacks, so memory_block_stack's move constructor binds to a
\* temporary converted from the arena object through its allocator base (no
\* other conversion exists); the arena's own stacks are private to it, so the
\* temporary shares no node with them.
arena_to_stack(other) == NULL

\* memory_arena(memory_arena &&other); the allocator base of the new arena is
\* move-constructed from that of other and holds its state
move_ctor(other) ==
    LET u == stack_move(arena_to_stack(other))
        c == stack_move(arena_to_stack(other)) IN
    [new   |-> [state |-> "live", used_ |-> u.head, cached_ |-> c.head,
                no_used_ |-> other.no_used_, no_cached_ |-> other.no_cached_,
                alloc |-> other.alloc],
     other |-> [other EXCEPT !.no_used_ = 0, !.no_cached_ = 0]]

\* swap(memory_arena &a, memory_arena &b): the two stacks and the two
\* counters; the allocator bases are not exchanged
swap(a, b) ==
    [a |-> [a EXCEPT !.used_ = b.used_, !.cached_ = b.cached_,
                     !.no_used_ = b.no_used_, !.no_cached_ = b.no_cached_],
     b |-> [b EXCEPT !.used_ = a.used_, !.cached_ = a.cached_,
                     !.no_used_ = a.no_used_, !.no_cached_ = a.no_cached_]]

\* operator=(memory_arena &&other): tmp is move-constructed from other,
\* swapped with *this and destroyed; released: the blocks tmp's destructor
\* passes to tmp's allocator inst
move_assign(this, other, m) ==
    LET c == move_ctor(other)
        w == swap(this, c.new)
        d == dtor(w.b, m) IN
    [this |-> w.a, other |-> c.other, mem |-> d.mem,
     released |-> d.released, inst |-> w.b.alloc]

\* ---- actions -------------------------------------------------------------

\* the process is terminated during op on arena x, which is left as ar
Abort(op, x, ar) ==
    /\ aborted' = TRUE
    /\ arena' = [arena EXCEPT ![x] = ar]
    /\ last' = Record(op, x, Throw, FALSE)
    /\ UNCHANGED <<mem, acq, total, log>>

\* asked: the allocate_block calls the operation made to the strategy
AllocateBlock(x) ==
    /\ Live(x)
    /\ \E checked \in BOOLEAN :
       LET ar == arena[x] IN
       IF checked /\ ~(capacity_assert(ar) /\ size_assert(ar))
       THEN \* FOONATHAN_MEMORY_ASSERT in capacity() or size() fails in a
            \* build that checks assertions
            Abort("allocate_block", x, ar)
       ELSE IF must_grow(ar)
       THEN \E r \in StrategyResults :
               IF r = Throw
               THEN LET n == allocate_block_throw(ar, mem) IN
                    /\ arena' = [arena EXCEPT ![x] = n.arena]
                    /\ mem' = n.mem
                    /\ last' = [Record("allocate_block", x, Throw, TRUE)
                                   EXCEPT !.asked = 1]
                    /\ UNCHANGED <<acq, total, log, aborted>>
               ELSE LET n == allocate_block_grow(ar, mem, r) IN
                    /\ total < MaxAcquire
                    /\ arena' = [arena EXCEPT ![x] = n.arena]
                    /\ mem' = n.mem
                    /\ acq' = [acq EXCEPT ![r.memory] = total + 1]
                    /\ total' = total + 1
                    /\ log' = Append(log, AllocEvent(ar.alloc, r, total + 1))
                    /\ last' = [Record("allocate_block", x,
                                       top(n.arena.used_, n.mem), FALSE)
                                   EXCEPT !.asked = 1]
                    /\ UNCHANGED aborted
       ELSE IF empty(ar.cached_)
            THEN \* used_.steal_top(cached_) dereferences a null head_
                 Abort("allocate_block", x, ar)
            ELSE LET n == allocate_block_reuse(ar, mem) IN
                 /\ arena' = [arena EXCEPT ![x] = n.arena]
                 /\ mem' = n.mem
                 /\ last' = Record("allocate_block", x,
                                   top(n.arena.used_, n.mem), FALSE)
                 /\ UNCHANGED <<acq, total, log, aborted>>

\* the consumer's contract: never on an arena with size() == 0
DeallocateBlock(x) ==
    /\ Live(x)
    /\ size(arena[x]) > 0
    /\ LET ar == arena[x] IN
       IF empty(ar.used_)
       THEN \* cached_.steal_top(used_) dereferences a null head_
            Abort("deallocate_block", x, deallocate_block_counters(ar))
       ELSE LET n == deallocate_block(ar, mem) IN
            /\ arena' = [arena EXCEPT ![x] = n.arena]
            /\ mem' = n.mem
            /\ last' = Record("deallocate_block", x, Throw, FALSE)
            /\ UNCHANGED <<acq, total, log, aborted>>

\* deallocate_block() on an arena with size() == 0, against the contract.
\* Lines 146-147 write the counters; cached_.steal_top(used_) then runs on an
\* empty used_: a build that checks assertions stops there, any other build
\* reads through a null head_, which either faults or yields whatever is at
\* that address (garbage) as the new head_ of used_.
DeallocateBlockEmpty(x) ==
    /\ Live(x)
    /\ size(arena[x]) = 0
    /\ empty(arena[x].used_)
    /\ LET c == deallocate_block_counters(arena[x]) IN
       \/ Abort("deallocate_block", x, c)
       \/ \E garbage \in {NULL} \cup Addrs :
              /\ arena' = [arena EXCEPT ![x] =
                             [c EXCEPT !.state = "undefined", !.cached_ = NULL,
                                       !.used_ = garbage]]
              /\ last' = Record("deallocate_block", x, Throw, FALSE)
              /\ UNCHANGED <<mem, acq, total, log, aborted>>

ShrinkToFit(x) ==
    /\ Live(x)
    /\ LET n == shrink_to_fit(arena[x], mem)
           r == Release(arena[x].alloc, n.released, log, acq, n.mem) IN
       /\ arena' = [arena EXCEPT ![x] = n.arena]
       /\ mem' = r.mem
       /\ log' = r.log
       /\ acq' = r.acq
       /\ last' = Record("shrink_to_fit", x, Throw, FALSE)
       /\ UNCHANGED <<total, aborted>>

Destroy(x) ==
    /\ Live(x)
    /\ LET n == dtor(arena[x], mem)
           r == Release(arena[x].alloc, n.released, log, acq, n.mem) IN
       /\ arena' = [arena EXCEPT ![x] = n.arena]
       /\ mem' = r.mem
       /\ log' = r.log
       /\ acq' = r.acq
       /\ last' = Record("dtor", x, Throw, FALSE)
       /\ UNCHANGED <<total, aborted>>

\* memory_arena dst(detail::move(src))
MoveConstruct(dst, src) ==
    /\ Live(src)
    /\ arena[dst].state = "none"
    /\ LET n == move_ctor(arena[src]) IN
       /\ arena' = [arena EXCEPT ![dst] = n.new, ![src] = n.other]
       /\ last' = [Record("move_ctor", src, Throw, FALSE) EXCEPT !.to = dst]
       /\ UNCHANGED <<mem, acq, total, log, aborted>>

\* memory_arena x(allocator)
Construct(x, allocator) ==
    /\ ~aborted
    /\ arena[x].state = "none"
    /\ arena' = [arena EXCEPT ![x] = ctor(allocator)]
    /\ last' = Record("ctor", x, Throw, FALSE)
    /\ UNCHANGED <<mem, acq, total, log, aborted>>

\* dst = detail::move(src)
MoveAssign(dst, src) ==
    /\ Live(src)
    /\ Live(dst)
    /\ dst # src
    /\ last.assigns < MaxAssign
    /\ LET n == move_assign(arena[dst], arena[src], mem)
           r == Release(n.inst, n.released, log, acq, n.mem) IN
       /\ arena' = [arena EXCEPT ![dst] = n.this, ![src] = n.other]
       /\ mem' = r.mem
       /\ log' = r.log
       /\ acq' = r.acq
       /\ last' = [Record("move_assign", src, Throw, FALSE)
                      EXCEPT !.to = dst, !.assigns = @ + 1]
       /\ UNCHANGED <<total, aborted>>

Next ==
    \E x \in Arenas :
        \/ AllocateBlock(x)
        \/ DeallocateBlock(x)
        \/ ShrinkToFit(x)
        \/ Destroy(x)

\* one arena and the operations on it
Spec == Init /\ [][Next]_vars

NextMove ==
    \/ Next
    \/ \E dst \in Arenas, src \in Arenas : MoveConstruct(dst, src)

\* the arena, and a second one move-constructed from it
SpecMove == Init /\ [][NextMove]_vars

NextAssign ==
    \/ \E x \in Arenas :
           \/ AllocateBlock(x)
           \/ DeallocateBlock(x)
           \/ Destroy(x)
    \/ Construct("b", "B")
    \/ \E dst \in Arenas, src \in Arenas : MoveAssign(dst, src)

\* two arenas, each constructed with an allocator of its own, their blocks
\* allocated and deallocated, move assignment between them, destruction
SpecAssign == Init /\ [][NextAssign]_vars

\* one arena whose consumer may also call deallocate_block() with size() == 0
NextMisuse ==
    \/ Next
    \/ \E x \in {"a"} : DeallocateBlockEmpty(x)

SpecMisuse == Init /\ [][NextMisuse]_vars

\* ---- what the properties are stated over ---------------------------------

Reverse(s) == [i \in 1..Len(s) |-> s[Len(s) + 1 - i]]

Range(s) == {s[i] : i \in 1..Len(s)}

Max(S) == CHOOSE n \in S : \A k \in S : k <= n

\* the blocks the last operation obtained from or returned to the strategy
Calls == SubSeq(log, last.log0 + 1, Len(log))

Addresses(ev) == [i \in 1..Len(ev) |-> ev[i].block.memory]

AllDeallocations(ev) ==
    \A i \in 1..Len(ev) : ev[i].op = "deallocate_block" /\ ev[i].id > 0

\* each call releases a block acquired before the one released by the call
\* preceding it
ReverseOfAcquisition(ev) ==
    \A i \in 1..Len(ev) - 1 : ev[i].id > ev[i + 1].id

\* acquisition numbers of the blocks obtained / released in log[1..n]
Obtained(n) ==
    {log[i].id : i \in {k \in 1..n : log[k].op = "allocate_block"}}

Returned(n) ==
    {log[i].id : i \in {k \in 1..n : log[k].op = "deallocate_block"}}

\* number of deallocate_block calls the strategies have received
Deallocations ==
    Cardinality({i \in 1..Len(log) : log[i].op = "deallocate_block"})

\* ---- C1 --------------------------------------------------------------------

\* C1: in every live arena, after any sequence of allocate_block,
\* deallocate_block (size() > 0), shrink_to_fit and move operations, no_used_
\* is the number of blocks on used_, no_cached_ the number of blocks on
\* cached_, and the assertions of capacity() and size() hold.
C1_CountersCountBlocks ==
    \A x \in Arenas : Live(x) =>
        /\ arena[x].no_used_ = Len(Nodes(arena[x].used_, mem))
        /\ arena[x].no_cached_ = Len(Nodes(arena[x].cached_, mem))
        /\ capacity_assert(arena[x])
        /\ size_assert(arena[x])

\* ---- C2 --------------------------------------------------------------------

\* C2: in a live arena capacity() is size() plus the number of cached blocks,
\* it is the number of blocks obtained from the strategy and not yet returned
\* to it, and it does not exceed the number of blocks ever obtained.
C2_CapacityIsOwnedBlocks ==
    \A x \in Arenas : Live(x) =>
        /\ capacity(arena[x]) =
               size(arena[x]) + Len(Nodes(arena[x].cached_, mem))
        /\ capacity(arena[x]) =
               Cardinality(Obtained(Len(log))) - Deallocations
        /\ capacity(arena[x]) <= Cardinality(Obtained(Len(log)))
        /\ Cardinality(Obtained(Len(log))) = total

C2_Witness ==
    /\ Live("a")
    /\ size(arena["a"]) > 0
    /\ Len(Nodes(arena["a"].cached_, mem)) > 0
    /\ Deallocations > 0

\* ---- C3 --------------------------------------------------------------------

\* C3: every deallocate_block call a strategy receives, from shrink_to_fit or
\* from the destructor, passes the most recently acquired block among those
\* not yet released.
C3_ReleaseMostRecentFirst ==
    \A i \in 1..Len(log) : log[i].op = "deallocate_block" =>
        LET owned == Obtained(i - 1) \ Returned(i - 1) IN
        /\ owned # {}
        /\ log[i].id = Max(owned)

C3_Witness ==
    /\ last.op = "dtor"
    /\ Len(Calls) >= 2
    /\ last.cached0 # <<>>
    /\ \E i \in 1..last.log0 : log[i].op = "deallocate_block"

\* ---- C4 --------------------------------------------------------------------

\* C4: shrink_to_fit() ends with cached_ empty and no_cached_ == 0, calls the
\* strategy's deallocate_block once for each block that was cached and for no
\* other, in reverse order of their acquisition, and leaves used_ and size()
\* as they were.
C4_ShrinkToFit ==
    last.op = "shrink_to_fit" =>
        LET ar == arena[last.x] IN
        /\ empty(ar.cached_)
        /\ ar.no_cached_ = 0
        /\ AllDeallocations(Calls)
        /\ Addresses(Calls) = Reverse(last.cached0)
        /\ ReverseOfAcquisition(Calls)
        /\ ar.used_ = last.pre.used_
        /\ Nodes(ar.used_, mem) = last.used0
        /\ size(ar) = size(last.pre)

C4_Witness ==
    /\ last.op = "shrink_to_fit"
    /\ Len(last.cached0) >= 2
    /\ last.used0 # <<>>

\* ---- C5 --------------------------------------------------------------------

\* C5: the destructor calls the strategy's deallocate_block once for every
\* block on used_ or cached_, in reverse order of acquisition; with the
\* earlier shrink_to_fit calls every block ever acquired has then been
\* released exactly once.
C5_DestructorReleasesAll ==
    last.op = "dtor" =>
        /\ AllDeallocations(Calls)
        /\ Len(Calls) = Len(last.used0) + Len(last.cached0)
        /\ Range(Addresses(Calls)) = Range(last.used0) \cup Range(last.cached0)
        /\ ReverseOfAcquisition(Calls)
        /\ \A id \in 1..total :
               Cardinality({i \in 1..Len(log) :
                   log[i].op = "deallocate_block" /\ log[i].id = id}) = 1
        /\ Deallocations = total

C5_Witness ==
    /\ last.op = "dtor"
    /\ last.used0 # <<>>
    /\ last.cached0 # <<>>
    /\ total > Len(Calls)

\* ---- C6 --------------------------------------------------------------------

\* C6: allocate_block() right after deallocate_block() on the same arena
\* returns the usable region (address and size) that was used_.top() before
\* the deallocate_block(), and the strategy is not called.
C6_ReuseLaw ==
    (/\ last.op = "allocate_block"
     /\ last.prev_op = "deallocate_block"
     /\ last.prev_x = last.x
     /\ ~aborted) =>
        /\ ~last.threw
        /\ last.ret = last.prev_top0
        /\ last.asked = 0
        /\ Calls = <<>>

C6_Witness ==
    /\ last.op = "allocate_block"
    /\ last.prev_op = "deallocate_block"
    /\ last.prev_x = last.x
    /\ ~aborted
    /\ Len(last.cached0) >= 2
    /\ last.ret = last.prev_top0

\* ---- C7 --------------------------------------------------------------------

\* C7: allocate_block() calls the strategy's allocate_block once when and only
\* when there is no cached block; otherwise it moves the top cached block onto
\* used_ and makes no strategy call.  When it returns, size() has grown by 1
\* and the block returned is used_.top().  deallocate_block() makes no
\* strategy call, leaves capacity() as it was and lowers size() by 1.
C7_AllocateDeallocate ==
    LET ar == arena[last.x] IN
    /\ (last.op = "allocate_block" /\ ~aborted) =>
           /\ IF last.pre.no_cached_ = 0
              THEN /\ last.asked = 1
                   /\ last.cached0 = <<>>
                   /\ ~last.threw =>
                          /\ Len(Calls) = 1
                          /\ Calls[1].op = "allocate_block"
                          /\ Nodes(ar.used_, mem) =
                                 <<Calls[1].block.memory>> \o last.used0
              ELSE /\ last.asked = 0
                   /\ Calls = <<>>
                   /\ Nodes(ar.used_, mem) = <<Head(last.cached0)>> \o last.used0
                   /\ Nodes(ar.cached_, mem) = Tail(last.cached0)
           /\ ~last.threw =>
                  /\ size(ar) = size(last.pre) + 1
                  /\ last.ret = top(ar.used_, mem)
    /\ (last.op = "deallocate_block" /\ ~aborted) =>
           /\ last.asked = 0
           /\ Calls = <<>>
           /\ capacity(ar) = capacity(last.pre)
           /\ size(ar) = size(last.pre) - 1

C7_Witness ==
    /\ last.op = "deallocate_block"
    /\ ~aborted
    /\ last.pre.no_cached_ > 0
    /\ size(last.pre) >= 2

\* ---- C8 --------------------------------------------------------------------

\* C8: when the strategy's allocate_block fails inside allocate_block(), the
\* failure reaches the caller and used_, cached_, no_used_ and no_cached_ are
\* as they were before the call.
C8_GrowthFailureIsAtomic ==
    (last.op = "allocate_block" /\ last.asked = 1 /\ Calls = <<>>) =>
        /\ last.threw
        /\ arena[last.x] = last.pre
        /\ Nodes(arena[last.x].used_, mem) = last.used0
        /\ Nodes(arena[last.x].cached_, mem) = last.cached0

C8_Witness ==
    /\ last.op = "allocate_block"
    /\ last.threw
    /\ Len(last.used0) >= 2

\* ---- C9 --------------------------------------------------------------------

\* C9: a block never goes from the used stack straight to the strategy's
\* deallocate_block: every block an operation releases, the destructor
\* included, was on cached_ when the operation began.
C9_ReleasedOnlyFromCached ==
    \A i \in 1..Len(Calls) : Calls[i].op = "deallocate_block" =>
        Calls[i].block.memory \in Range(last.cached0)

\* C9, amended: shrink_to_fit() releases only blocks that are on cached_ when
\* it begins; the destructor releases the blocks of cached_ and of used_, the
\* latter straight from the used stack; no other operation releases a block.
C9_ReleasedFromCachedOrByDestructor ==
    \A i \in 1..Len(Calls) : Calls[i].op = "deallocate_block" =>
        \/ /\ last.op = "shrink_to_fit"
           /\ Calls[i].block.memory \in Range(last.cached0)
        \/ /\ last.op = "dtor"
           /\ Calls[i].block.memory \in
                  Range(last.cached0) \cup Range(last.used0)

C9_Witness ==
    /\ last.op = "dtor"
    /\ \E i \in 1..Len(Calls) :
           /\ Calls[i].op = "deallocate_block"
           /\ Calls[i].block.memory \in Range(last.used0)
           /\ Calls[i].block.memory \notin Range(last.cached0)

\* ---- C10 -------------------------------------------------------------------

\* C10: after memory_arena b(move(a)), b holds the used and cached stacks of
\* a (same blocks, same order) and the counters of a, and a has capacity()
\* == 0, size() == 0 and two empty stacks.
C10_MoveTransfer ==
    last.op = "move_ctor" =>
        LET a == arena[last.x]
            b == arena[last.to] IN
        /\ Nodes(b.used_, mem) = last.used0
        /\ Nodes(b.cached_, mem) = last.cached0
        /\ b.no_used_ = last.pre.no_used_
        /\ b.no_cached_ = last.pre.no_cached_
        /\ capacity(a) = 0
        /\ size(a) = 0
        /\ empty(a.used_)
        /\ empty(a.cached_)

\* ---- C11 -------------------------------------------------------------------

\* C11: after b = move(a), b holds the two stacks and the two counters a had
\* and a's strategy instance, which receives all further strategy calls of b,
\* and a is an empty arena with capacity() == 0.
C11_MoveAssignTransfers ==
    last.op = "move_assign" =>
        LET a == arena[last.x]
            b == arena[last.to] IN
        /\ b.alloc = last.pre.alloc
        /\ Nodes(b.used_, mem) = last.used0
        /\ Nodes(b.cached_, mem) = last.cached0
        /\ b.no_used_ = last.pre.no_used_
        /\ b.no_cached_ = last.pre.no_cached_
        /\ capacity(a) = 0
        /\ empty(a.used_)
        /\ empty(a.cached_)

\* ---- C13 -------------------------------------------------------------------

\* C13: every block a strategy instance receives through deallocate_block was
\* returned by that instance's allocate_block before and has not been
\* released since, also when the arena assigned to by b = move(a) owns blocks.
C13_ReleasedToAcquiringStrategy ==
    \A i \in 1..Len(log) : log[i].op = "deallocate_block" =>
        \E j \in 1..(i - 1) :
            /\ log[j].op = "allocate_block"
            /\ log[j].inst = log[i].inst
            /\ log[j].block = log[i].block
            /\ log[j].id = log[i].id
            /\ \A k \in (j + 1)..(i - 1) :
                   ~(log[k].op = "deallocate_block" /\ log[k].id = log[i].id)

\* ---- C12 -------------------------------------------------------------------

\* the strategy returns blocks of one size
FixedSize ==
    \A i \in 1..Len(log), j \in 1..Len(log) :
        (log[i].op = "allocate_block" /\ log[j].op = "allocate_block") =>
            log[i].block.size = log[j].block.size

\* the first three stages of the scenario, and the allocate_block() after them
ScenarioPrefix ==
    LET ar == arena["a"] IN
    /\ last.step = 2 =>
           size(ar) = 2 /\ capacity(ar) = 2 /\ total = 2 /\ Len(log) = 2
    /\ last.step = 3 =>
           size(ar) = 1 /\ capacity(ar) = 2 /\ total = 2 /\ Len(log) = 2
    /\ last.step = 4 =>
           /\ size(ar) = 2 /\ capacity(ar) = 2
           /\ last.ret = last.prev_top0
           /\ last.asked = 0 /\ total = 2 /\ Len(log) = 2

\* C12: with a strategy of fixed block size, allocate_block() twice gives
\* size() == 2, capacity() == 2 and two strategy allocations; deallocate_block()
\* gives size() == 1, capacity() == 2; allocate_block() again gives size() == 2,
\* capacity() == 2, the block just freed and still two strategy allocations;
\* shrink_to_fit() then gives capacity() == size() == 1 with one
\* deallocate_block call to the strategy.
C12_Scenario ==
    (FixedSize /\ ~aborted) =>
        /\ ScenarioPrefix
        /\ last.step = 5 =>
               /\ capacity(arena["a"]) = 1
               /\ size(arena["a"]) = 1
               /\ Deallocations = 1

\* C12, amended: as C12 up to the second allocate_block() after the
\* deallocate_block(); shrink_to_fit() after it finds nothing cached, leaves
\* capacity() == size() == 2 and makes no strategy call; shrink_to_fit() right
\* after the deallocate_block() instead gives capacity() == size() == 1 with
\* one deallocate_block call to the strategy.
C12_ScenarioShrinkAfterReuse ==
    (FixedSize /\ ~aborted) =>
        /\ ScenarioPrefix
        /\ last.step = 5 =>
               /\ capacity(arena["a"]) = 2
               /\ size(arena["a"]) = 2
               /\ Deallocations = 0
               /\ Calls = <<>>
        /\ last.step = 6 =>
               /\ capacity(arena["a"]) = 1
               /\ size(arena["a"]) = 1
               /\ Deallocations = 1
               /\ Len(Calls) = 1

C12_Witness ==
    /\ FixedSize
    /\ last.step = 5
    /\ last.op = "shrink_to_fit"
    /\ last.prev_op = "allocate_block"

\* ---- C14 -------------------------------------------------------------------

\* the blocks an arena owns: used_ bottom to top, then cached_ top to bottom
Owned(ar) == Reverse(Nodes(ar.used_, mem)) \o Nodes(ar.cached_, mem)

\* C14: in every state, every block on cached_ was acquired later than every
\* block on used_, and used_ read bottom to top followed by cached_ read top
\* to bottom lists the owned blocks in strictly increasing acquisition order.
C14_AcquisitionOrder ==
    \A x \in Arenas : Live(x) =>
        LET ar == arena[x]
            o  == Owned(ar) IN
        /\ \A u \in Range(Nodes(ar.used_, mem)), c \in Range(Nodes(ar.cached_, mem)) :
               acq[u] < acq[c]
        /\ \A i \in 1..(Len(o) - 1) : acq[o[i]] < acq[o[i + 1]]

C14_Witness ==
    /\ Live("a")
    /\ Len(Nodes(arena["a"].cached_, mem)) >= 2
    /\ Len(Nodes(arena["a"].used_, mem)) >= 1
    /\ last.op = "allocate_block"
    /\ last.asked = 0

\* ---- C15 -------------------------------------------------------------------

\* C15: in every state no block is on both used_ and cached_, no block is
\* twice on one stack, and a block that was passed to the strategy's
\* deallocate_block is on neither stack.
C15_ExclusiveOwnership ==
    \A x \in Arenas : Live(x) =>
        LET u == Nodes(arena[x].used_, mem)
            c == Nodes(arena[x].cached_, mem) IN
        /\ Range(u) \cap Range(c) = {}
        /\ Cardinality(Range(u)) = Len(u)
        /\ Cardinality(Range(c)) = Len(c)
        /\ \A p \in Range(u) \cup Range(c) : acq[p] # 0

C15_Witness ==
    /\ Live("a")
    /\ last.op = "shrink_to_fit"
    /\ Len(Calls) >= 1
    /\ ~empty(arena["a"].used_)

\* ---- C16 -------------------------------------------------------------------

\* C16: steal_top(other) with other not empty moves one node: other loses its
\* top block, the receiver has that block as its new top, every other block
\* of both stacks stays where it was, and top() of the receiver is what top()
\* of other was.  (cached_.steal_top(used_) in deallocate_block(),
\* used_.steal_top(cached_) in allocate_block().)
C16_StealTopMovesOneNode ==
    LET ar == arena[last.x] IN
    /\ (last.op = "deallocate_block" /\ last.used0 # <<>> /\ ~aborted) =>
           /\ Nodes(ar.cached_, mem) = <<Head(last.used0)>> \o last.cached0
           /\ Nodes(ar.used_, mem) = Tail(last.used0)
           /\ top(ar.cached_, mem) = last.top0
    /\ (/\ last.op = "allocate_block"
        /\ last.asked = 0
        /\ last.cached0 # <<>>
        /\ ~aborted) =>
           /\ Nodes(ar.used_, mem) = <<Head(last.cached0)>> \o last.used0
           /\ Nodes(ar.cached_, mem) = Tail(last.cached0)
           /\ top(ar.used_, mem) = last.ctop0

C16_Witness ==
    /\ last.op = "deallocate_block"
    /\ ~aborted
    /\ Len(last.used0) >= 2
    /\ Len(last.cached0) >= 1

\* ---- C17 -------------------------------------------------------------------

\* the allocate_block call that returned the block now at address p
Acquisition(p) ==
    CHOOSE e \in Range(log) : e.op = "allocate_block" /\ e.id = acq[p]

\* C17: the descriptor a strategy's deallocate_block receives for a block is
\* the one allocate_block returned for it (address and size, the header
\* included), however often the block went from stack to stack, and top() is
\* the region after the header: NodeOffset further, NodeOffset shorter.
C17_PushPopRoundTrip ==
    /\ \A i \in 1..Len(log) : log[i].op = "deallocate_block" =>
           \E j \in 1..(i - 1) :
               /\ log[j].op = "allocate_block"
               /\ log[j].id = log[i].id
               /\ log[j].block = log[i].block
    /\ \A x \in Arenas : (Live(x) /\ ~empty(arena[x].used_)) =>
           LET b == Acquisition(arena[x].used_).block IN
           top(arena[x].used_, mem) =
               memory_block(b.memory + NodeOffset, b.size - NodeOffset)

C17_Witness ==
    /\ last.op = "shrink_to_fit"
    /\ Len(Calls) >= 2
    /\ Calls[1].block.size # Calls[2].block.size
    /\ ~empty(arena["a"].used_)

\* ---- C18 -------------------------------------------------------------------

\* C18: deallocate_block() with size() == 0 is detected by an assertion before
\* the arena's state is changed; it never leaves the arena running with
\* no_used_ wrapped to 2^w - 1 and no_cached_ incremented.
C18_EmptyDeallocateDetected ==
    (last.op = "deallocate_block" /\ size(last.pre) = 0) =>
        /\ aborted
        /\ arena[last.x] = last.pre
        /\ ~(/\ arena[last.x].no_used_ = SizeMod - 1
             /\ arena[last.x].no_cached_ = Inc(last.pre.no_cached_))

====
